---- MODULE Spec2Model ----
(***************************************************************************)
(* Model of the trade ledger and PnL engine of solana-trade-simulator:     *)
(* src/src/services/trade_service.py (TradeService) over the trades table  *)
(* of src/src/models/trade.py.                                             *)
(*                                                                         *)
(* Several callers (Procs) use one TradeService.  A call is split at the   *)
(* points where the code waits on the outside world: the HTTP request of   *)
(* get_quote and the database session.  Everything between two such points *)
(* is one atomic step.                                                     *)
(*                                                                         *)
(* Amounts are Python floats.  A value is a fraction <<n, d>> in lowest    *)
(* terms and every arithmetic operation rounds its exact result to         *)
(* Precision significant decimal digits, ties to even, as IEEE 754 does    *)
(* with 53 significant bits.  Precision and LamportsPerUnit are reduced so *)
(* that the arithmetic stays inside TLC's integers.                        *)
(***************************************************************************)
EXTENDS Integers, Sequences, FiniteSets, TLC

\* ------------------------------------------------------------------ bounds
NumProcs == 2
\* rows the table grows to: with one caller, with concurrent callers
MaxTrades == 3
MaxConcurrentTrades == 3
\* ... and with concurrent callers whose amounts and quotes differ
MaxQuotedTrades == 2
Precision == 2

Procs == 1..NumProcs

\* ------------------------------------------------- program constants
\* 10**9 in the code (smallest units per whole token), reduced to 10
LamportsPerUnit == 10
DefaultSlippageBps == 50
SOL_MINT == "So11111111111111111111111111111111111111112"

\* ------------------------------------------------------- float arithmetic
Abs(n) == IF n < 0 THEN -n ELSE n

RECURSIVE GCD(_, _)
GCD(a, b) == IF b = 0 THEN a ELSE GCD(b, a % b)

RECURSIVE Pow10(_)
Pow10(k) == IF k = 0 THEN 1 ELSE 10 * Pow10(k - 1)

\* the fraction n/d (d # 0) in lowest terms with a positive denominator
Norm(n, d) ==
    LET g == GCD(Abs(n), Abs(d))
        s == IF d < 0 THEN -1 ELSE 1
    IN  <<(s * n) \div g, (s * d) \div g>>

Zero == <<0, 1>>
IsPos(x) == x[1] > 0
IsZero(x) == x[1] = 0
Neg(x) == <<-x[1], x[2]>>

\* exact results, before rounding
ExactAdd(x, y) == Norm(x[1] * y[2] + y[1] * x[2], x[2] * y[2])
ExactMul(x, y) == Norm(x[1] * y[1], x[2] * y[2])
ExactDiv(x, y) == Norm(x[1] * y[2], x[2] * y[1])

\* a/d > 0 rounded to Precision significant digits, ties to even
RECURSIVE RoundPos(_, _)
RoundPos(a, d) ==
    IF a >= d * Pow10(Precision)
    THEN ExactMul(RoundPos(a, d * 10), <<10, 1>>)
    ELSE IF a < d * Pow10(Precision - 1)
    THEN ExactMul(RoundPos(a * 10, d), <<1, 10>>)
    ELSE LET q == a \div d
             r == a % d
             m == IF 2 * r > d THEN q + 1
                  ELSE IF 2 * r < d THEN q
                  ELSE IF q % 2 = 0 THEN q ELSE q + 1
         IN  <<m, 1>>

\* the float nearest to the exact value x
Round(x) ==
    IF x[1] = 0 THEN Zero
    ELSE IF x[1] > 0 THEN RoundPos(x[1], x[2])
    ELSE Neg(RoundPos(-x[1], x[2]))

FAdd(x, y) == Round(ExactAdd(x, y))
FSub(x, y) == Round(ExactAdd(x, Neg(y)))
FMul(x, y) == Round(ExactMul(x, y))
FDiv(x, y) == Round(ExactDiv(x, y))

\* int(x): truncation towards zero
IntOf(x) == IF x[1] >= 0 THEN x[1] \div x[2] ELSE -((-x[1]) \div x[2])

\* ---------------------------------------------------------------- inputs
Mints == {"A", "B"}
\* the amount callers pass (the float 0.5) and the outAmount the quote
\* provider answers with (11.0 in smallest units) ...
AmountChoices == {<<1, 2>>}
OutAmountChoices == {110}
SlippageChoices == {DefaultSlippageBps}
\* ... two amounts (0.5, 1.0) and two quoted outAmounts (1.0, 11.0) where
\* requests have to be told apart
TwoAmountChoices == {<<1, 2>>, <<1, 1>>}
TwoOutAmountChoices == {10, 110}
\* the readings of datetime.now(): one where the time of day plays no part
ClockChoices == {1}
\* ... and two where it does: the clock moves between two readings
ClockReadings == {1, 2}
\* ... the amounts a caller of TradeService can pass: -0.5, 0.0 and 0.5
AnyAmountChoices == {<<-1, 2>>, Zero, <<1, 2>>}
\* ... and the trades a ledger handed to calculate_pnl is made of
\* (kind, amount, quoted outAmount) with the quotes it is valued at
PnlTradeChoices == {<<"buy", <<1, 1>>, 20>>, <<"buy", <<3, 1>>, 60>>,
                    <<"sell", <<4, 1>>, 25>>, <<"sell", <<2, 1>>, 15>>,
                    <<"buy", <<1, 1>>, 0>>}
PnlOutAmountChoices == {18, 30}
\* ... and the trades of the ledgers whose order is looked at: Buys of 1.0
\* base quoted 10.0 and 0.6 asset, a Sell of 0.5 asset quoted 1.0 base
OrderTradeChoices == {<<"buy", <<1, 1>>, 100>>, <<"buy", <<1, 1>>, 6>>,
                      <<"sell", <<1, 2>>, 10>>}

\* ----------------------------------------------------------------- state
VARIABLES
    ledger,   \* the trades table, rows in rowid order
    pc,       \* where each caller's running call waits
    loc,      \* the running call of each caller: arguments and locals
    result    \* the call that returned in the last step and the dict it returned

vars == <<ledger, pc, loc, result>>

NoData == [none |-> TRUE]
NoTrade == [type |-> "none", ca_mint |-> "", input_token |-> "",
            input_amount |-> Zero, output_token |-> "", output_amount |-> Zero,
            timestamp |-> 0, slippage_bps |-> 0]
NoParams == [inputMint |-> "", outputMint |-> "", amount |-> 0, slippageBps |-> 0]

Ok(data) == [error_code |-> 0, error_message |-> "", data |-> data]
Err(message) == [error_code |-> -1, error_message |-> message, data |-> NoData]

QuoteErrorMessage == "Failed to fetch quote"
NoHoldingsMessage == "No CA tokens held for mint"
NoTradesMessage == "No trades found for this CA token."
HeldFailedMessage == "Failed to calculate total CA held"
BuyFailedMessageAsQuoteError == "Failed to fetch quote"
BuyFailedMessage == "Failed to process buy CA command"
SellFailedMessage == "Failed to process sell CA command"
PnlFailedMessage == "Failed to calculate PnL"

Get(dict, key, default) == IF key \in DOMAIN dict THEN dict[key] ELSE default

\* ------------------------------------------------------------ the store
\* the id SQLite gives the next row of an INTEGER PRIMARY KEY table
RECURSIVE MaxId(_)
MaxId(rows) == IF rows = <<>> THEN 0
               ELSE LET m == MaxId(Tail(rows))
                    IN  IF Head(rows).id > m THEN Head(rows).id ELSE m
NextIdReused(rows) == IF rows = <<>> THEN 1 ELSE MaxId(rows)
NextId(rows) == MaxId(rows) + 1

\* the row session.add(Trade(...)); session.commit() stores for trade_data:
\* its timestamp is the datetime.now() of line 93 / 139, read at `now`
TradeRowUnderOneMint(id, trade_data, now) ==
    [id |-> id, type |-> trade_data.type, ca_mint |-> "B",
     input_token |-> trade_data.input_token,
     input_amount |-> trade_data.input_amount,
     output_token |-> trade_data.output_token,
     output_amount |-> trade_data.output_amount,
     timestamp |-> now,
     slippage_bps |-> trade_data.slippage_bps]
TradeRow(id, trade_data, now) ==
    [id |-> id, type |-> trade_data.type, ca_mint |-> trade_data.ca_mint,
     input_token |-> trade_data.input_token,
     input_amount |-> trade_data.input_amount,
     output_token |-> trade_data.output_token,
     output_amount |-> trade_data.output_amount,
     timestamp |-> now,
     slippage_bps |-> trade_data.slippage_bps]

AddAndCommitReplacing(rows, trade_data, now) ==
    IF rows = <<>> THEN <<TradeRow(1, trade_data, now)>>
    ELSE [rows EXCEPT ![Len(rows)] = TradeRow(rows[Len(rows)].id, trade_data, now)]
AddAndCommit(rows, trade_data, now) ==
    Append(rows, TradeRow(NextId(rows), trade_data, now))

\* session.query(Trade).filter(Trade.ca_mint == ca_mint).all()
QueryUnfiltered(rows, ca_mint) == rows
QueryByMint(rows, ca_mint) == SelectSeq(rows, LAMBDA t : t.ca_mint = ca_mint)

\* ------------------------------------------------------------ get_quote
\* the request get_quote sends: the amount in smallest units, truncated
QuoteParams(input_mint, output_mint, amount, slippage_bps) ==
    [inputMint |-> input_mint, outputMint |-> output_mint,
     amount |-> IntOf(FMul(amount, <<LamportsPerUnit, 1>>)),
     slippageBps |-> slippage_bps]

\* how requests.get can end: it raises a transport error, or a response
\* arrives with a status and a JSON body (a quote with or without an
\* outAmount field on 2xx, an error body otherwise)
StatusCodes == {200, 400, 500}
ProviderOutcomes(out_amounts) ==
    {[raised |-> "ConnectionError", status_code |-> 0, json |-> NoData]}
        \cup {[raised |-> "", status_code |-> 200, json |-> d] :
                 d \in [outAmount : out_amounts] \cup {[inAmount |-> 0]}}
        \cup {[raised |-> "", status_code |-> sc, json |-> [error |-> "error"]] :
                 sc \in StatusCodes \ {200}}

\* the try block of get_quote: raise_for_status raises for 4xx and 5xx, and
\* every RequestException becomes an error dict
GetQuoteWithoutStatusCheck(outcome) ==
    IF outcome.raised # "" THEN Err(QuoteErrorMessage) ELSE Ok(outcome.json)
GetQuote(outcome) ==
    IF outcome.raised # "" THEN Err(QuoteErrorMessage)
    ELSE IF outcome.status_code >= 400 THEN Err(QuoteErrorMessage)
    ELSE Ok(outcome.json)

\* what get_quote can return
QuoteResults(out_amounts) == {GetQuote(o) : o \in ProviderOutcomes(out_amounts)}

\* int(quote.get("outAmount", 0)) / 10**9
OutAmountOf(quote) == FDiv(<<Get(quote, "outAmount", 0), 1>>, <<LamportsPerUnit, 1>>)

\* --------------------------------------------------- get_total_ca_held
\* sum(amounts): left to right from 0
RECURSIVE SumOf(_)
SumOf(amounts) ==
    IF amounts = <<>> THEN Zero
    ELSE FAdd(SumOf(SubSeq(amounts, 1, Len(amounts) - 1)), amounts[Len(amounts)])

OutputAmounts(rows) == [i \in 1..Len(rows) |-> rows[i].output_amount]
InputAmounts(rows) == [i \in 1..Len(rows) |-> rows[i].input_amount]
OfType(rows, type) == SelectSeq(rows, LAMBDA t : t.type = type)

\* total_ca_bought - total_ca_sold over the rows the query returned
TotalCaHeldClamped(ca_trades) ==
    LET total_ca_bought == SumOf(OutputAmounts(OfType(ca_trades, "buy")))
        total_ca_sold == SumOf(InputAmounts(OfType(ca_trades, "sell")))
        held == FSub(total_ca_bought, total_ca_sold)
    IN  IF IsPos(held) THEN held ELSE Zero
TotalCaHeld(ca_trades) ==
    LET total_ca_bought == SumOf(OutputAmounts(OfType(ca_trades, "buy")))
        total_ca_sold == SumOf(InputAmounts(OfType(ca_trades, "sell")))
    IN  FSub(total_ca_bought, total_ca_sold)

\* ------------------------------------------------------- calculate_pnl
ZeroTotals == [total_sol_spent |-> Zero, total_ca_bought |-> Zero,
               total_sol_received |-> Zero, total_ca_sold |-> Zero]

\* the body of the loop over ca_trades
AddTrade(totals, trade) ==
    IF trade.type = "buy"
    THEN [totals EXCEPT !.total_sol_spent = FAdd(@, trade.input_amount),
                        !.total_ca_bought = FAdd(@, trade.output_amount)]
    ELSE IF trade.type = "sell"
    THEN [totals EXCEPT !.total_sol_received = FAdd(@, trade.output_amount),
                        !.total_ca_sold = FAdd(@, trade.input_amount)]
    ELSE totals

RECURSIVE Totals(_)
Totals(ca_trades) ==
    IF ca_trades = <<>> THEN ZeroTotals
    ELSE AddTrade(Totals(SubSeq(ca_trades, 1, Len(ca_trades) - 1)),
                  ca_trades[Len(ca_trades)])

RealizedPnlAtFullCost(totals) ==
    FSub(totals.total_sol_received, totals.total_sol_spent)

RealizedPnl(totals) ==
    LET cost_of_sold_ca ==
            FMul(totals.total_sol_spent,
                 IF IsPos(totals.total_ca_bought)
                 THEN FDiv(totals.total_ca_sold, totals.total_ca_bought)
                 ELSE Zero)
    IN  FSub(totals.total_sol_received, cost_of_sold_ca)

RemainingCa(totals) == FSub(totals.total_ca_bought, totals.total_ca_sold)

UnrealizedPnlAtFullCost(totals, quote) ==
    FSub(OutAmountOf(quote), totals.total_sol_spent)

\* the else branch of the quote check: current value minus cost of the rest
UnrealizedPnl(totals, quote) ==
    LET current_sol_value == OutAmountOf(quote)
        avg_buy_price == IF IsPos(totals.total_ca_bought)
                         THEN FDiv(totals.total_sol_spent, totals.total_ca_bought)
                         ELSE Zero
        cost_of_remaining_ca == FMul(avg_buy_price, RemainingCa(totals))
    IN  FSub(current_sol_value, cost_of_remaining_ca)

\* the dict calculate_pnl returns as data
PnlData(ca_mint, totals, unrealized_pnl) ==
    [ca_mint |-> ca_mint,
     total_sol_spent |-> totals.total_sol_spent,
     total_ca_bought |-> totals.total_ca_bought,
     total_sol_received |-> totals.total_sol_received,
     total_ca_sold |-> totals.total_ca_sold,
     realized_pnl |-> RealizedPnl(totals),
     unrealized_pnl |-> unrealized_pnl,
     total_pnl |-> FAdd(RealizedPnl(totals), unrealized_pnl)]

\* ------------------------------------------------------------- the calls
NoCall == [fn |-> "none", entry |-> "none", ca_mint |-> "", amount |-> Zero,
           slippage_bps |-> 0, params |-> NoParams,
           ca_trades |-> <<>>, trade_data |-> NoTrade]

NoResult == [entry |-> "none", ca_mint |-> "",
             value |-> [error_code |-> 0, error_message |-> "", data |-> NoData]]

TradeStates == {"buy_quote", "buy_commit", "sell_quote", "sell_commit"}

\* calls that may still add a row are started only while the table, which
\* a specification lets grow to max_rows rows, has room
Room(max_rows) ==
    Len(ledger) + Cardinality({p \in Procs : pc[p] \in TradeStates}) < max_rows

Init ==
    /\ ledger = <<>>
    /\ pc = [p \in Procs |-> "idle"]
    /\ loc = [p \in Procs |-> NoCall]
    /\ result = NoResult

\* if quote_result["error_code"] == -1
QuoteFailedUnchecked(quote_result) == FALSE
QuoteFailed(quote_result) == quote_result.error_code = -1

\* if total_ca_held <= 0
NothingHeldBelowZero(total_ca_held) == total_ca_held[1] < 0
NothingHeld(total_ca_held) == ~IsPos(total_ca_held)

\* if not ca_trades
NoTradesFoundUnchecked(ca_trades) == FALSE
NoTradesFound(ca_trades) == ca_trades = <<>>

\* if remaining_ca > 0
HasRemainingOrNone(remaining_ca) == remaining_ca[1] >= 0
HasRemaining(remaining_ca) == IsPos(remaining_ca)

\* the dict buy_ca / sell_ca build from their arguments and the quote; its
\* timestamp is the datetime.now() of line 81 / 127, read at `now`
TradeDataAtPar(type, ca_mint, amount, quote, slippage_bps, now) ==
    [type |-> type, ca_mint |-> ca_mint,
     input_token |-> IF type = "buy" THEN "SOL" ELSE "CA",
     input_amount |-> amount,
     output_token |-> IF type = "buy" THEN "CA" ELSE "SOL",
     output_amount |-> amount,
     timestamp |-> now,
     slippage_bps |-> slippage_bps]
TradeData(type, ca_mint, amount, quote, slippage_bps, now) ==
    [type |-> type, ca_mint |-> ca_mint,
     input_token |-> IF type = "buy" THEN "SOL" ELSE "CA",
     input_amount |-> amount,
     output_token |-> IF type = "buy" THEN "CA" ELSE "SOL",
     output_amount |-> OutAmountOf(quote),
     timestamp |-> now,
     slippage_bps |-> slippage_bps]

\* the call `entry` of caller p returns value: its locals are gone
Return(p, entry, ca_mint, value) ==
    /\ pc' = [pc EXCEPT ![p] = "idle"]
    /\ loc' = [loc EXCEPT ![p] = NoCall]
    /\ result' = [entry |-> entry, ca_mint |-> ca_mint, value |-> value]

\* the call goes on to wait in state `at` with locals `locals`
Goto(p, at, locals) ==
    /\ pc' = [pc EXCEPT ![p] = at]
    /\ loc' = [loc EXCEPT ![p] = locals]
    /\ result' = NoResult

\* buy_ca up to the HTTP request of get_quote
BuyCall(p, ca_mint, amount_sol, slippage_bps) ==
    /\ pc[p] = "idle"
    /\ Goto(p, "buy_quote",
            [NoCall EXCEPT !.fn = "buy_ca", !.entry = "buy_ca",
                           !.ca_mint = ca_mint, !.amount = amount_sol,
                           !.slippage_bps = slippage_bps,
                           !.params = QuoteParams(SOL_MINT, ca_mint,
                                                  amount_sol, slippage_bps)])
    /\ UNCHANGED ledger

\* sell_ca from its quote request on, for the amount and on behalf of `entry`
SellFrom(p, entry, ca_mint, amount_ca, slippage_bps, ca_trades) ==
    Goto(p, "sell_quote",
         [NoCall EXCEPT !.fn = "sell_ca", !.entry = entry,
                        !.ca_mint = ca_mint, !.amount = amount_ca,
                        !.slippage_bps = slippage_bps,
                        !.ca_trades = ca_trades,
                        !.params = QuoteParams(ca_mint, SOL_MINT,
                                               amount_ca, slippage_bps)])

\* sell_ca up to the HTTP request of get_quote
SellCall(p, ca_mint, amount_ca, slippage_bps) ==
    /\ pc[p] = "idle"
    /\ SellFrom(p, "sell_ca", ca_mint, amount_ca, slippage_bps, <<>>)
    /\ UNCHANGED ledger

\* get_quote returns to buy_ca: pass an error through, else build trade_data
BuyQuoteReturn(p, quote_result, now) ==
    /\ pc[p] = "buy_quote"
    /\ IF QuoteFailed(quote_result)
       THEN Return(p, loc[p].entry, loc[p].ca_mint, quote_result)
       ELSE Goto(p, "buy_commit",
                 [loc[p] EXCEPT !.trade_data =
                     TradeData("buy", loc[p].ca_mint, loc[p].amount,
                               quote_result.data, loc[p].slippage_bps, now)])
    /\ UNCHANGED ledger

\* get_quote returns to sell_ca
SellQuoteReturn(p, quote_result, now) ==
    /\ pc[p] = "sell_quote"
    /\ IF QuoteFailed(quote_result)
       THEN Return(p, loc[p].entry, loc[p].ca_mint, quote_result)
       ELSE Goto(p, "sell_commit",
                 [loc[p] EXCEPT !.trade_data =
                     TradeData("sell", loc[p].ca_mint, loc[p].amount,
                               quote_result.data, loc[p].slippage_bps, now)])
    /\ UNCHANGED ledger

\* the session block of buy_ca: the row is committed, or the session raises
BuyCommit(p, committed, now) ==
    /\ pc[p] = "buy_commit"
    /\ IF committed
       THEN /\ ledger' = AddAndCommit(ledger, loc[p].trade_data, now)
            /\ Return(p, loc[p].entry, loc[p].ca_mint, Ok(loc[p].trade_data))
       ELSE /\ Return(p, loc[p].entry, loc[p].ca_mint, Err(BuyFailedMessage))
            /\ UNCHANGED ledger

\* the session block of sell_ca
SellCommit(p, committed, now) ==
    /\ pc[p] = "sell_commit"
    /\ IF committed
       THEN /\ ledger' = AddAndCommit(ledger, loc[p].trade_data, now)
            /\ Return(p, loc[p].entry, loc[p].ca_mint, Ok(loc[p].trade_data))
       ELSE /\ Return(p, loc[p].entry, loc[p].ca_mint, Err(SellFailedMessage))
            /\ UNCHANGED ledger

\* get_total_ca_held: the query and the two sums, or the except branch
GetTotalCaHeld(rows, ca_mint, query_ok) ==
    IF query_ok THEN Ok(TotalCaHeld(QueryByMint(rows, ca_mint)))
    ELSE Err(HeldFailedMessage)

\* the position query called on its own
HeldCall(p, ca_mint, query_ok) ==
    /\ pc[p] = "idle"
    /\ Return(p, "get_total_ca_held", ca_mint,
              GetTotalCaHeld(ledger, ca_mint, query_ok))
    /\ UNCHANGED ledger

\* sell_all_ca: the position query, the checks, then sell_ca up to its quote
SellAllCall(p, ca_mint, slippage_bps, query_ok, room) ==
    /\ pc[p] = "idle"
    /\ LET total_ca_held_result == GetTotalCaHeld(ledger, ca_mint, query_ok)
           total_ca_held == total_ca_held_result.data
       IN  IF total_ca_held_result.error_code = -1
           THEN Return(p, "sell_all_ca", ca_mint, total_ca_held_result)
           ELSE IF NothingHeld(total_ca_held)
           THEN Return(p, "sell_all_ca", ca_mint, Err(NoHoldingsMessage))
           ELSE /\ room
                /\ SellFrom(p, "sell_all_ca", ca_mint, total_ca_held,
                            slippage_bps, QueryByMint(ledger, ca_mint))
    /\ UNCHANGED ledger

\* calculate_pnl up to its return or to the HTTP request of get_quote
PnlCall(p, ca_mint, query_ok) ==
    /\ pc[p] = "idle"
    /\ LET ca_trades == QueryByMint(ledger, ca_mint)
           totals == Totals(ca_trades)
       IN  IF ~query_ok
           THEN Return(p, "calculate_pnl", ca_mint, Err(PnlFailedMessage))
           ELSE IF NoTradesFound(ca_trades)
           THEN Return(p, "calculate_pnl", ca_mint, Err(NoTradesMessage))
           ELSE IF HasRemaining(RemainingCa(totals))
           THEN Goto(p, "pnl_quote",
                     [NoCall EXCEPT !.fn = "calculate_pnl",
                                    !.entry = "calculate_pnl",
                                    !.ca_mint = ca_mint,
                                    !.amount = RemainingCa(totals),
                                    !.ca_trades = ca_trades,
                                    !.params = QuoteParams(ca_mint, SOL_MINT,
                                                 RemainingCa(totals),
                                                 DefaultSlippageBps)])
           ELSE Return(p, "calculate_pnl", ca_mint,
                       Ok(PnlData(ca_mint, totals, Zero)))
    /\ UNCHANGED ledger

\* unrealized_pnl after the quote for remaining_ca: 0.0 when the quote
\* failed, else the value of the else branch
UnrealizedAfterQuoteUnchecked(totals, quote_result) ==
    UnrealizedPnl(totals, quote_result.data)
UnrealizedAfterQuote(totals, quote_result) ==
    IF QuoteFailed(quote_result) THEN Zero
    ELSE UnrealizedPnl(totals, quote_result.data)

\* get_quote returns to calculate_pnl
PnlQuoteReturn(p, quote_result) ==
    /\ pc[p] = "pnl_quote"
    /\ LET totals == Totals(loc[p].ca_trades)
           unrealized_pnl == UnrealizedAfterQuote(totals, quote_result)
       IN  Return(p, "calculate_pnl", loc[p].ca_mint,
                  Ok(PnlData(loc[p].ca_mint, totals, unrealized_pnl)))
    /\ UNCHANGED ledger

\* a step of a Buy or Sell call of caller p, called with one of `amounts`,
\* quoted one of `out_amounts`, the clock reading one of `times`
TradeStep(p, max_rows, amounts, out_amounts, times) ==
    \/ /\ Room(max_rows)
       /\ \E m \in Mints, a \in amounts, s \in SlippageChoices :
              BuyCall(p, m, a, s)
    \/ /\ Room(max_rows)
       /\ \E m \in Mints, a \in amounts, s \in SlippageChoices :
              SellCall(p, m, a, s)
    \/ \E q \in QuoteResults(out_amounts), now \in times : BuyQuoteReturn(p, q, now)
    \/ \E q \in QuoteResults(out_amounts), now \in times : SellQuoteReturn(p, q, now)
    \/ \E c \in BOOLEAN, now \in times : BuyCommit(p, c, now)
    \/ \E c \in BOOLEAN, now \in times : SellCommit(p, c, now)

\* a step of a SellAll, GetPnL or position-query call of caller p
QueryStep(p, max_rows) ==
    \/ \E m \in Mints, ok \in BOOLEAN : HeldCall(p, m, ok)
    \/ \E m \in Mints, s \in SlippageChoices, ok \in BOOLEAN :
           SellAllCall(p, m, s, ok, Room(max_rows))
    \/ \E m \in Mints, ok \in BOOLEAN : PnlCall(p, m, ok)
    \/ \E q \in QuoteResults(OutAmountChoices) : PnlQuoteReturn(p, q)

\* one caller, one call after the other, every kind of call
Next ==
    \/ TradeStep(1, MaxTrades, AmountChoices, OutAmountChoices, ClockChoices)
    \/ QueryStep(1, MaxTrades)

Spec == Init /\ [][Next]_vars

\* one caller making the requests that ask for a quote: Buy, Sell, SellAll
\* and GetPnL (the position query called on its own returns in its one step)
NextRequests ==
    \/ TradeStep(1, MaxTrades, AmountChoices, OutAmountChoices, ClockChoices)
    \/ \E m \in Mints, s \in SlippageChoices, ok \in BOOLEAN :
           SellAllCall(1, m, s, ok, Room(MaxTrades))
    \/ \E m \in Mints, ok \in BOOLEAN : PnlCall(1, m, ok)
    \/ \E q \in QuoteResults(OutAmountChoices) : PnlQuoteReturn(1, q)

\* the steps that need nothing from outside the process: the session blocks
LocalSteps ==
    \E c \in BOOLEAN, now \in ClockChoices : BuyCommit(1, c, now) \/ SellCommit(1, c, now)

\* the caller's own steps are taken; requests.get, which line 34 calls
\* without a timeout, returns when the provider answers or the connection
\* breaks, and nothing obliges either to happen
SpecProviderFree == Init /\ [][NextRequests]_vars /\ WF_vars(LocalSteps)

\* concurrent callers of Buy and Sell
NextConcurrent ==
    \E p \in Procs : TradeStep(p, MaxConcurrentTrades, AmountChoices,
                                OutAmountChoices, ClockChoices)

SpecConcurrent == Init /\ [][NextConcurrent]_vars

\* what get_quote can return to a Buy whose quoted output is positive
QuotedResults(out_amounts) ==
    {r \in QuoteResults(out_amounts) :
        r.error_code = -1 \/ "outAmount" \in DOMAIN r.data}

\* a step of a Buy (positive amount, positive quoted output) or of a SellAll
\* of caller p
BuyOrSellAllStep(p, max_rows) ==
    \/ /\ Room(max_rows)
       /\ \E m \in Mints, a \in AmountChoices, s \in SlippageChoices :
              BuyCall(p, m, a, s)
    \/ \E q \in QuotedResults(OutAmountChoices), now \in ClockChoices :
           BuyQuoteReturn(p, q, now)
    \/ \E c \in BOOLEAN, now \in ClockChoices : BuyCommit(p, c, now)
    \/ \E m \in Mints, s \in SlippageChoices, ok \in BOOLEAN :
           SellAllCall(p, m, s, ok, Room(max_rows))
    \/ \E q \in QuoteResults(OutAmountChoices), now \in ClockChoices :
           SellQuoteReturn(p, q, now)
    \/ \E c \in BOOLEAN, now \in ClockChoices : SellCommit(p, c, now)

\* concurrent callers of Buy and SellAll
NextSellAll == \E p \in Procs : BuyOrSellAllStep(p, MaxConcurrentTrades)

SpecSellAll == Init /\ [][NextSellAll]_vars

\* the same requests made by one caller, one after the other
NextSellAllInTurn == BuyOrSellAllStep(1, MaxConcurrentTrades)

SpecSellAllInTurn == Init /\ [][NextSellAllInTurn]_vars

\* one caller, one call after the other, of Buy, Sell and SellAll
NextTrades ==
    \/ TradeStep(1, MaxTrades, AmountChoices, OutAmountChoices, ClockChoices)
    \/ \E m \in Mints, s \in SlippageChoices, ok \in BOOLEAN :
           SellAllCall(1, m, s, ok, Room(MaxTrades))

SpecTrades == Init /\ [][NextTrades]_vars

\* concurrent callers of Buy and Sell with different amounts and quotes
NextQuotes ==
    \E p \in Procs : TradeStep(p, MaxQuotedTrades, TwoAmountChoices,
                                TwoOutAmountChoices, ClockChoices)

SpecQuotes == Init /\ [][NextQuotes]_vars

\* one caller of buy_ca and sell_ca while the clock moves
NextClock ==
    TradeStep(1, MaxTrades, AmountChoices, OutAmountChoices, ClockReadings)

SpecClock == Init /\ [][NextClock]_vars

\* one caller of buy_ca and sell_ca passing any amount
NextAnyAmount ==
    TradeStep(1, MaxTrades, AnyAmountChoices, OutAmountChoices, ClockChoices)

SpecAnyAmount == Init /\ [][NextAnyAmount]_vars

\* calculate_pnl on its own, over every ledger of one mint that Buy and Sell
\* calls with the quotes of PnlTradeChoices leave behind
RECURSIVE LedgersOf(_)
LedgersOf(n) ==
    IF n = 0 THEN {<<>>}
    ELSE LET shorter == LedgersOf(n - 1)
         IN  shorter \cup
             {AddAndCommit(rows, TradeData(t[1], "A", t[2], [outAmount |-> t[3]],
                                           DefaultSlippageBps, 1), 1) :
                 rows \in {r \in shorter : Len(r) = n - 1}, t \in PnlTradeChoices}

InitPnl ==
    /\ ledger \in LedgersOf(MaxTrades)
    /\ pc = [p \in Procs |-> "idle"]
    /\ loc = [p \in Procs |-> NoCall]
    /\ result = NoResult

NextPnl ==
    \/ \E ok \in BOOLEAN : PnlCall(1, "A", ok)
    \/ \E q \in QuoteResults(PnlOutAmountChoices) : PnlQuoteReturn(1, q)

SpecPnl == InitPnl /\ [][NextPnl]_vars

\* the position query and calculate_pnl over every ledger of one mint that
\* Buy and Sell calls with the quotes of `trades` leave behind
RECURSIVE LedgersFrom(_, _)
LedgersFrom(n, trades) ==
    IF n = 0 THEN {<<>>}
    ELSE LET shorter == LedgersFrom(n - 1, trades)
         IN  shorter \cup
             {AddAndCommit(rows, TradeData(t[1], "A", t[2], [outAmount |-> t[3]],
                                           DefaultSlippageBps, 1), 1) :
                 rows \in {r \in shorter : Len(r) = n - 1}, t \in trades}

InitOrder ==
    /\ ledger \in LedgersFrom(MaxTrades, OrderTradeChoices)
    /\ pc = [p \in Procs |-> "idle"]
    /\ loc = [p \in Procs |-> NoCall]
    /\ result = NoResult

NextOrder ==
    \/ \E ok \in BOOLEAN : HeldCall(1, "A", ok)
    \/ \E ok \in BOOLEAN : PnlCall(1, "A", ok)
    \/ \E q \in QuoteResults(PnlOutAmountChoices) : PnlQuoteReturn(1, q)

SpecOrder == InitOrder /\ [][NextOrder]_vars

\* ------------------------------------------------------------------------
\* What the specification says, in its own terms
\* ------------------------------------------------------------------------
\* the ledger rows of one mint and kind, as a set
RowsOf(rows, ca_mint) == {rows[i] : i \in {j \in 1..Len(rows) : rows[j].ca_mint = ca_mint}}

\* totalAssetBought, totalAssetSold, totalBaseSpent, totalBaseReceived of a
\* mint: sums over its Buy or Sell records in id order
RECURSIVE SumOver(_, _, _, _)
SumOver(rows, ca_mint, kind, field) ==
    IF rows = <<>> THEN Zero
    ELSE LET r == rows[Len(rows)]
             rest == SumOver(SubSeq(rows, 1, Len(rows) - 1), ca_mint, kind, field)
         IN  IF r.ca_mint = ca_mint /\ r.type = kind THEN FAdd(rest, r[field]) ELSE rest

TotalAssetBought(rows, ca_mint) == SumOver(rows, ca_mint, "buy", "output_amount")
TotalAssetSold(rows, ca_mint) == SumOver(rows, ca_mint, "sell", "input_amount")
TotalBaseSpent(rows, ca_mint) == SumOver(rows, ca_mint, "buy", "input_amount")
TotalBaseReceived(rows, ca_mint) == SumOver(rows, ca_mint, "sell", "output_amount")
RemainingAsset(rows, ca_mint) ==
    FSub(TotalAssetBought(rows, ca_mint), TotalAssetSold(rows, ca_mint))

QuoteError == Err(QuoteErrorMessage)
Returned(entry, ca_mint, value) == [entry |-> entry, ca_mint |-> ca_mint, value |-> value]

\* the ledger grew by exactly one row and kept every earlier row as it was
AppendedOne == /\ Len(ledger') = Len(ledger) + 1
               /\ SubSeq(ledger', 1, Len(ledger)) = ledger

\* C1: a Buy or Sell whose quote request fails returns the quote error and
\* appends nothing: no step of the request, from the call to the return of
\* the error, changes the ledger or the records of any mint.
C1_FailedQuoteAppendsNothing ==
    [][\A p \in Procs :
         /\ (\E now \in ClockChoices : \/ BuyQuoteReturn(p, QuoteError, now)
                                        \/ SellQuoteReturn(p, QuoteError, now))
              => /\ ledger' = ledger
                 /\ \A m \in Mints : QueryByMint(ledger', m) = QueryByMint(ledger, m)
                 /\ pc'[p] = "idle"
                 /\ result'.value = QuoteError
         /\ (pc[p] = "idle" /\ pc'[p] \in {"buy_quote", "sell_quote"})
              => ledger' = ledger]_vars

C1_Witness ==
    /\ result.entry \in {"buy_ca", "sell_ca"}
    /\ result.value = QuoteError
    /\ Len(ledger) >= 1

\* C2: SellAll on a mint whose computed remainingAsset is zero or negative
\* (a mint without records included) fails with NoHoldings in the step that
\* made the position query: it goes on to a quote request only with
\* remainingAsset > 0, and the ledger is not written.
C2_SellAllWithoutHoldings ==
    [][/\ \A p \in Procs :
            (pc[p] = "idle" /\ pc'[p] = "sell_quote" /\ loc'[p].entry = "sell_all_ca")
               => IsPos(RemainingAsset(ledger, loc'[p].ca_mint))
       /\ (/\ pc' = pc
           /\ result'.entry = "sell_all_ca"
           /\ result'.value.error_message # HeldFailedMessage)
             => /\ result'.value = Err(NoHoldingsMessage)
                /\ ~IsPos(RemainingAsset(ledger, result'.ca_mint))
                /\ ledger' = ledger]_vars

C2_Witness ==
    /\ result = Returned("sell_all_ca", result.ca_mint, Err(NoHoldingsMessage))
    /\ RowsOf(ledger, result.ca_mint) # {}
    /\ RemainingAsset(ledger, result.ca_mint)[1] < 0

C2_WitnessZero ==
    /\ result = Returned("sell_all_ca", result.ca_mint, Err(NoHoldingsMessage))
    /\ RowsOf(ledger, result.ca_mint) # {}
    /\ IsZero(RemainingAsset(ledger, result.ca_mint))

\* C3: a SellAll that succeeds with no other request on the mint in between
\* appended a Sell of exactly the remainingAsset and leaves remainingAsset 0
\* (so that a following SellAll fails with NoHoldings).
C3_SellAllSellsEverything ==
    [][\A p \in Procs :
         (/\ \E now \in ClockChoices : SellCommit(p, TRUE, now)
          /\ loc[p].entry = "sell_all_ca"
          /\ QueryByMint(ledger, loc[p].ca_mint) = loc[p].ca_trades)
            => /\ AppendedOne
               /\ ledger'[Len(ledger')].type = "sell"
               /\ ledger'[Len(ledger')].input_amount
                    = RemainingAsset(ledger, loc[p].ca_mint)
               /\ IsZero(RemainingAsset(ledger', loc[p].ca_mint))]_vars

\* the part of C3 that holds: the Sell appended is of exactly remainingAsset
C3_SellAllSellsRemaining ==
    [][\A p \in Procs :
         (/\ \E now \in ClockChoices : SellCommit(p, TRUE, now)
          /\ loc[p].entry = "sell_all_ca"
          /\ QueryByMint(ledger, loc[p].ca_mint) = loc[p].ca_trades)
            => /\ AppendedOne
               /\ ledger'[Len(ledger')].type = "sell"
               /\ ledger'[Len(ledger')].input_amount
                    = RemainingAsset(ledger, loc[p].ca_mint)]_vars

\* C4: the ledger is append-only.  Every step leaves it unchanged or appends
\* exactly one row with a new id, keeping every earlier row with all its
\* fields; only the commit of a Buy or Sell appends; GetPnL and the position
\* query never change it.
C4_AppendOnly ==
    [][/\ \/ ledger' = ledger
          \/ /\ AppendedOne
             /\ \A i \in 1..Len(ledger) : ledger[i].id # ledger'[Len(ledger')].id
             /\ \E p \in Procs : pc[p] \in {"buy_commit", "sell_commit"} /\ pc'[p] = "idle"
       /\ \A p \in Procs :
            (\/ pc[p] = "pnl_quote" /\ pc'[p] = "idle"
             \/ pc[p] = "idle" /\ pc'[p] = "pnl_quote"
             \/ pc' = pc /\ result'.entry \in {"calculate_pnl", "get_total_ca_held"})
               => ledger' = ledger]_vars

C4_Witness ==
    /\ Len(ledger) = MaxTrades
    /\ result.entry = "calculate_pnl"
    /\ result.value.error_code = 0

\* ca_trades holds exactly the rows of `rows` for ca_mint, each once, in
\* ascending id order
ExactlyRowsOf(ca_trades, rows, ca_mint) ==
    /\ \A i \in 1..Len(ca_trades) : ca_trades[i].ca_mint = ca_mint
    /\ {ca_trades[i] : i \in 1..Len(ca_trades)} = RowsOf(rows, ca_mint)
    /\ Len(ca_trades) = Cardinality(RowsOf(rows, ca_mint))
    /\ \A i, j \in 1..Len(ca_trades) : i < j => ca_trades[i].id < ca_trades[j].id

C6_SerializableAppends ==
    [][/\ \A i, j \in 1..Len(ledger') : i < j => ledger'[i].id < ledger'[j].id
       /\ SubSeq(ledger', 1, Len(ledger)) = ledger
       /\ \A p \in Procs :
            (/\ pc[p] \in {"buy_commit", "sell_commit"}
             /\ pc'[p] = "idle"
             /\ result'.value.error_code = 0)
               => /\ AppendedOne
                  /\ TradeRow(ledger'[Len(ledger')].id, result'.value.data,
                              ledger'[Len(ledger')].timestamp)
                       = ledger'[Len(ledger')]
       /\ ledger' # ledger
            => \E p \in Procs : /\ pc[p] \in {"buy_commit", "sell_commit"}
                                /\ pc'[p] = "idle"
                                /\ result'.value.error_code = 0]_vars

\* two requests on the same mint are past their quotes at once, after an
\* earlier commit
C6_Witness ==
    /\ Len(ledger) = 2
    /\ \E p, q \in Procs :
          /\ p # q
          /\ pc[p] = "buy_commit"
          /\ pc[q] = "idle"
          /\ result.entry = "sell_ca"
          /\ result.value.error_code = 0
          /\ result.ca_mint = loc[p].ca_mint
          /\ ledger[1].ca_mint = loc[p].ca_mint

\* C7: GetPnL for a mint without ledger records fails with NoTrades in the
\* step that made the query (a quote is requested only for a mint with
\* records), also when other mints have records; for a mint with a record
\* it never fails with NoTrades.
C7_NoTrades ==
    [][/\ (/\ pc' = pc
           /\ result'.entry = "calculate_pnl"
           /\ result'.value.error_message # PnlFailedMessage)
             => (RowsOf(ledger, result'.ca_mint) = {}
                   <=> result'.value = Err(NoTradesMessage))
       /\ \A p \in Procs :
            /\ (pc[p] = "idle" /\ pc'[p] = "pnl_quote")
                 => RowsOf(ledger, loc'[p].ca_mint) # {}
            /\ (pc[p] = "pnl_quote" /\ pc'[p] = "idle")
                 => result'.value.error_message # NoTradesMessage]_vars

C7_Witness ==
    /\ result = Returned("calculate_pnl", result.ca_mint, Err(NoTradesMessage))
    /\ RowsOf(ledger, result.ca_mint) = {}
    /\ Len(ledger) >= 1

\* realizedPnL as the specification defines it from the four totals
ClaimedRealizedPnl(rows, ca_mint) ==
    LET bought == TotalAssetBought(rows, ca_mint)
    IN  IF IsPos(bought)
        THEN FSub(TotalBaseReceived(rows, ca_mint),
                  FMul(TotalBaseSpent(rows, ca_mint),
                       FDiv(TotalAssetSold(rows, ca_mint), bought)))
        ELSE TotalBaseReceived(rows, ca_mint)

\* C8: every successful GetPnL reports the four totals of the mint's Buy and
\* Sell records and realizedPnL = totalBaseReceived - totalBaseSpent *
\* (totalAssetSold / totalAssetBought), or totalBaseReceived when
\* totalAssetBought = 0.
C8_RealizedPnl ==
    (result.entry = "calculate_pnl" /\ result.value.error_code = 0)
      => LET data == result.value.data
             m == result.ca_mint
         IN  /\ data.total_sol_spent = TotalBaseSpent(ledger, m)
             /\ data.total_ca_bought = TotalAssetBought(ledger, m)
             /\ data.total_sol_received = TotalBaseReceived(ledger, m)
             /\ data.total_ca_sold = TotalAssetSold(ledger, m)
             /\ data.realized_pnl = ClaimedRealizedPnl(ledger, m)

\* a partly sold position: part of the cost is realized
C8_Witness ==
    /\ result.entry = "calculate_pnl"
    /\ result.value.error_code = 0
    /\ IsPos(TotalAssetSold(ledger, "A"))
    /\ IsPos(RemainingAsset(ledger, "A"))
    /\ result.value.data.realized_pnl = ClaimedRealizedPnl(ledger, "A")
    /\ result.value.data.realized_pnl
         # FSub(TotalBaseReceived(ledger, "A"), TotalBaseSpent(ledger, "A"))

\* nothing bought (a Buy quoted at 0): realizedPnL = totalBaseReceived
C8_WitnessNothingBought ==
    /\ result.entry = "calculate_pnl"
    /\ result.value.error_code = 0
    /\ IsZero(TotalAssetBought(ledger, "A"))
    /\ IsPos(TotalBaseSpent(ledger, "A"))
    /\ IsPos(TotalBaseReceived(ledger, "A"))
    /\ result.value.data.realized_pnl = TotalBaseReceived(ledger, "A")

\* Buys of 1.0 and 3.0 base for 2.0 and 6.0 asset, a Sell of 4.0 for 2.5 base
ExampleRow(id, type, amount, out_amount) ==
    [id |-> id, type |-> type, ca_mint |-> "A",
     input_token |-> IF type = "buy" THEN "SOL" ELSE "CA", input_amount |-> amount,
     output_token |-> IF type = "buy" THEN "CA" ELSE "SOL", output_amount |-> out_amount,
     timestamp |-> 1, slippage_bps |-> DefaultSlippageBps]
ExampleOpen == <<ExampleRow(1, "buy", <<1, 1>>, <<2, 1>>),
                 ExampleRow(2, "buy", <<3, 1>>, <<6, 1>>),
                 ExampleRow(3, "sell", <<4, 1>>, <<5, 2>>)>>
\* a Buy of 1.0 base for 2.0 asset, a Sell of 2.0 asset for 1.5 base
ExampleClosed == <<ExampleRow(1, "buy", <<1, 1>>, <<2, 1>>),
                   ExampleRow(2, "sell", <<2, 1>>, <<3, 2>>)>>

\* C9: with remainingAsset > 0 and a successful quote, GetPnL asked the
\* quote for selling exactly remainingAsset and reports unrealizedPnL =
\* currentBaseValue - (totalBaseSpent / totalAssetBought) * remainingAsset
\* and totalPnL = realizedPnL + unrealizedPnL; the example ledger valued at
\* 1.8 base gives 0.5, -0.2 and 0.3.
C9_UnrealizedPnl ==
    [][\A p \in Procs, out \in PnlOutAmountChoices :
         PnlQuoteReturn(p, Ok([outAmount |-> out]))
           => LET data == result'.value.data
                  m == loc[p].ca_mint
                  remaining == RemainingAsset(ledger, m)
                  current == FDiv(<<out, 1>>, <<LamportsPerUnit, 1>>)
              IN  /\ IsPos(remaining)
                  /\ loc[p].params =
                       [inputMint |-> m, outputMint |-> SOL_MINT,
                        amount |-> IntOf(FMul(remaining, <<LamportsPerUnit, 1>>)),
                        slippageBps |-> DefaultSlippageBps]
                  /\ result'.value.error_code = 0
                  /\ data.unrealized_pnl =
                       FSub(current,
                            FMul(FDiv(TotalBaseSpent(ledger, m),
                                      TotalAssetBought(ledger, m)),
                                 remaining))
                  /\ data.total_pnl = FAdd(ClaimedRealizedPnl(ledger, m),
                                           data.unrealized_pnl)
                  /\ (ledger = ExampleOpen /\ out = 18)
                       => /\ data.realized_pnl = <<1, 2>>
                          /\ data.unrealized_pnl = <<-1, 5>>
                          /\ data.total_pnl = <<3, 10>>]_vars

C9_Witness ==
    /\ ledger = ExampleOpen
    /\ result.entry = "calculate_pnl"
    /\ result.value.error_code = 0
    /\ result.value.data.realized_pnl = <<1, 2>>
    /\ result.value.data.unrealized_pnl = <<-1, 5>>
    /\ result.value.data.total_pnl = <<3, 10>>

\* C10: with remainingAsset <= 0 (fully sold, or sold beyond the buys) GetPnL
\* returns in the step that made the query, without a quote request, with
\* unrealizedPnL = 0 and totalPnL = realizedPnL; the closed example gives
\* 0.5, 0 and 0.5.
C10_ClosedPosition ==
    [][\A p \in Procs, m \in Mints :
         (/\ PnlCall(p, m, TRUE)
          /\ RowsOf(ledger, m) # {}
          /\ ~IsPos(RemainingAsset(ledger, m)))
            => LET data == result'.value.data
               IN  /\ pc'[p] = "idle"
                   /\ result'.entry = "calculate_pnl"
                   /\ result'.value.error_code = 0
                   /\ data.unrealized_pnl = Zero
                   /\ data.total_pnl = ClaimedRealizedPnl(ledger, m)
                   /\ data.total_pnl = data.realized_pnl
                   /\ ledger = ExampleClosed
                        => /\ data.realized_pnl = <<1, 2>>
                           /\ data.total_pnl = <<1, 2>>]_vars

C10_Witness ==
    /\ ledger = ExampleClosed
    /\ result.entry = "calculate_pnl"
    /\ result.value.error_code = 0
    /\ result.value.data.realized_pnl = <<1, 2>>
    /\ result.value.data.unrealized_pnl = Zero
    /\ result.value.data.total_pnl = <<1, 2>>

\* sold beyond the buys: remainingAsset < 0
C10_WitnessOversold ==
    /\ RemainingAsset(ledger, "A")[1] < 0
    /\ result.entry = "calculate_pnl"
    /\ result.value.error_code = 0
    /\ result.value.data.unrealized_pnl = Zero

\* C11: when remainingAsset > 0 and the current-value quote fails, GetPnL
\* returns success, not the quote error, with unrealizedPnL = 0, totalPnL =
\* realizedPnL and the four totals and realizedPnL of the ledger, the same a
\* successful quote is answered with.
C11_QuoteFailureInPnl ==
    [][\A p \in Procs :
         PnlQuoteReturn(p, QuoteError)
           => LET data == result'.value.data
                  m == loc[p].ca_mint
              IN  /\ IsPos(RemainingAsset(ledger, m))
                  /\ result'.entry = "calculate_pnl"
                  /\ result'.value.error_code = 0
                  /\ result'.value.error_message # QuoteErrorMessage
                  /\ data.unrealized_pnl = Zero
                  /\ data.total_pnl = data.realized_pnl
                  /\ data.realized_pnl = ClaimedRealizedPnl(ledger, m)
                  /\ data.total_sol_spent = TotalBaseSpent(ledger, m)
                  /\ data.total_ca_bought = TotalAssetBought(ledger, m)
                  /\ data.total_sol_received = TotalBaseReceived(ledger, m)
                  /\ data.total_ca_sold = TotalAssetSold(ledger, m)
                  /\ \A out \in PnlOutAmountChoices :
                        LET priced == PnlData(m, Totals(loc[p].ca_trades),
                                              UnrealizedAfterQuote(
                                                  Totals(loc[p].ca_trades),
                                                  Ok([outAmount |-> out])))
                        IN  /\ priced.realized_pnl = data.realized_pnl
                            /\ priced.total_sol_spent = data.total_sol_spent
                            /\ priced.total_ca_bought = data.total_ca_bought
                            /\ priced.total_sol_received = data.total_sol_received
                            /\ priced.total_ca_sold = data.total_ca_sold]_vars

\* the open example, which no quote of PnlOutAmountChoices values at its
\* cost, reported with unrealizedPnL 0
C11_Witness ==
    /\ ledger = ExampleOpen
    /\ IsPos(RemainingAsset(ledger, "A"))
    /\ result.entry = "calculate_pnl"
    /\ result.value.error_code = 0
    /\ result.value.data.unrealized_pnl = Zero
    /\ result.value.data.total_pnl = <<1, 2>>

\* C12: a Buy or Sell with a non-positive amount is rejected before any
\* quote request and any ledger access: a Buy or Sell goes on to its quote
\* request only with amount > 0, and no record has inputAmount <= 0.
C12_NonPositiveAmountRejected ==
    [][/\ \A p \in Procs :
            (/\ pc[p] = "idle"
             /\ pc'[p] \in {"buy_quote", "sell_quote"}
             /\ loc'[p].entry \in {"buy_ca", "sell_ca"})
               => IsPos(loc'[p].amount)
       /\ \A i \in 1..Len(ledger') : IsPos(ledger'[i].input_amount)]_vars

C14_EveryRequestReturns == \A p \in Procs : (pc[p] # "idle") ~> (pc[p] = "idle")

\* what holds instead: a request that does not return waits for its quote
C14_WaitsOnlyForQuote ==
    \A p \in Procs :
        (pc[p] # "idle") ~> (pc[p] \in {"idle", "buy_quote", "sell_quote", "pnl_quote"})

C16_PositionNotClamped ==
    (result.entry = "get_total_ca_held" /\ result.value.error_code = 0)
      => result.value.data = RemainingAsset(ledger, result.ca_mint)

\* two Sells of a mint never bought: the query reports -1.0
C16_Witness ==
    /\ result.entry = "get_total_ca_held"
    /\ result.value.error_code = 0
    /\ result.value.data = <<-1, 1>>
    /\ IsZero(TotalAssetBought(ledger, result.ca_mint))
    /\ Cardinality(RowsOf(ledger, result.ca_mint)) = 2

\* C17: the result of a successful Buy or Sell is the stored record: it
\* carries the id the store assigned and the timestamp, kind, mint, amounts
\* and slippage of the row appended.
C17_ResultIsStoredRecord ==
    [][\A p \in Procs :
         (/\ pc[p] \in {"buy_commit", "sell_commit"}
          /\ pc'[p] = "idle"
          /\ result'.value.error_code = 0)
            => LET row == ledger'[Len(ledger')]
                   data == result'.value.data
               IN  /\ AppendedOne
                   /\ "id" \in DOMAIN data
                   /\ data.id = row.id
                   /\ data.timestamp = row.timestamp
                   /\ data.type = row.type
                   /\ data.ca_mint = row.ca_mint
                   /\ data.input_amount = row.input_amount
                   /\ data.output_amount = row.output_amount
                   /\ data.slippage_bps = row.slippage_bps]_vars

\* the part of C17 about the timestamp alone
C17_ResultHasStoredTimestamp ==
    [][\A p \in Procs :
         (/\ pc[p] \in {"buy_commit", "sell_commit"}
          /\ pc'[p] = "idle"
          /\ result'.value.error_code = 0)
            => result'.value.data.timestamp = ledger'[Len(ledger')].timestamp]_vars

\* the part of C17 that holds: kind, mint, tokens, amounts and slippage of
\* the result are those of the row appended
C17_ResultHasStoredFields ==
    [][\A p \in Procs :
         (/\ pc[p] \in {"buy_commit", "sell_commit"}
          /\ pc'[p] = "idle"
          /\ result'.value.error_code = 0)
            => LET row == ledger'[Len(ledger')]
                   data == result'.value.data
               IN  /\ AppendedOne
                   /\ data.type = row.type
                   /\ data.ca_mint = row.ca_mint
                   /\ data.input_token = row.input_token
                   /\ data.input_amount = row.input_amount
                   /\ data.output_token = row.output_token
                   /\ data.output_amount = row.output_amount
                   /\ data.slippage_bps = row.slippage_bps]_vars

\* the fields of a record of kind `type` for the request (ca_mint, amount)
\* quoted `out` smallest units
ReflectsRequest(t, type, ca_mint, amount, out) ==
    /\ t.type = type
    /\ t.ca_mint = ca_mint
    /\ t.input_token = (IF type = "buy" THEN "SOL" ELSE "CA")
    /\ t.output_token = (IF type = "buy" THEN "CA" ELSE "SOL")
    /\ t.input_amount = amount
    /\ t.output_amount = FDiv(<<out, 1>>, <<LamportsPerUnit, 1>>)

\* C18: every record was appended after a successful quote response of the
\* same request and reflects that request and that quote, under every
\* interleaving.  A request asks the quote for its own mint and amount; on the
\* answer it prepares the record of its kind, mint and amount with
\* outputAmount = the answer's outAmount / LamportsPerUnit; no step of
\* another request changes what a waiting request holds; a row is appended
\* only by a request past its successful quote, and is the record it holds.
C18_RecordReflectsOwnQuote ==
    [][/\ \A p \in Procs :
            /\ (pc[p] = "idle" /\ pc'[p] \in {"buy_quote", "sell_quote"})
                 => LET c == loc'[p]
                        lamports == IntOf(FMul(c.amount, <<LamportsPerUnit, 1>>))
                    IN  c.params =
                          IF pc'[p] = "buy_quote"
                          THEN [inputMint |-> SOL_MINT, outputMint |-> c.ca_mint,
                                amount |-> lamports, slippageBps |-> c.slippage_bps]
                          ELSE [inputMint |-> c.ca_mint, outputMint |-> SOL_MINT,
                                amount |-> lamports, slippageBps |-> c.slippage_bps]
            /\ \A out \in TwoOutAmountChoices, now \in ClockChoices :
                 /\ BuyQuoteReturn(p, Ok([outAmount |-> out]), now)
                      => /\ pc'[p] = "buy_commit"
                         /\ ReflectsRequest(loc'[p].trade_data, "buy",
                                            loc[p].ca_mint, loc[p].amount, out)
                 /\ SellQuoteReturn(p, Ok([outAmount |-> out]), now)
                      => /\ pc'[p] = "sell_commit"
                         /\ ReflectsRequest(loc'[p].trade_data, "sell",
                                            loc[p].ca_mint, loc[p].amount, out)
            /\ (pc'[p] \in {"buy_commit", "sell_commit"} /\ pc[p] # pc'[p])
                 => /\ pc[p] = (IF pc'[p] = "buy_commit" THEN "buy_quote"
                                ELSE "sell_quote")
                    /\ loc'[p].ca_mint = loc[p].ca_mint
                    /\ loc'[p].amount = loc[p].amount
            /\ (pc'[p] = pc[p] /\ pc[p] # "idle") => loc'[p] = loc[p]
            /\ (pc[p] \in {"buy_commit", "sell_commit"} /\ pc'[p] = "idle"
                  /\ ledger' # ledger)
                 => /\ AppendedOne
                    /\ ledger'[Len(ledger')]
                         = TradeRow(ledger'[Len(ledger')].id, loc[p].trade_data,
                                    ledger'[Len(ledger')].timestamp)
                    /\ loc[p].trade_data.ca_mint = loc[p].ca_mint
                    /\ loc[p].trade_data.input_amount = loc[p].amount
       /\ ledger' # ledger
            => \E p \in Procs : /\ pc[p] \in {"buy_commit", "sell_commit"}
                                /\ pc'[p] = "idle"]_vars

\* a Buy quoted 11.0 was appended while a Buy of the same mint for another
\* amount, quoted 1.0, waits for its commit
C18_Witness ==
    /\ Len(ledger) = 1
    /\ result.entry = "buy_ca"
    /\ result.value.error_code = 0
    /\ ledger[1].output_amount = <<11, 1>>
    /\ \E p \in Procs :
          /\ pc[p] = "buy_commit"
          /\ loc[p].ca_mint = ledger[1].ca_mint
          /\ loc[p].amount # ledger[1].input_amount
          /\ loc[p].trade_data.output_amount = <<1, 1>>

\* a successful response whose JSON has no outAmount field
QuoteWithoutOutAmount == Ok([inAmount |-> 0])

\* C19: a quote response without the outAmount field is treated as a quote
\* failure: the Buy or Sell returns an error at once and appends no record.
C19_MissingOutAmountIsFailure ==
    [][\A p \in Procs :
         (\E now \in ClockChoices :
              \/ BuyQuoteReturn(p, QuoteWithoutOutAmount, now)
              \/ SellQuoteReturn(p, QuoteWithoutOutAmount, now))
           => /\ pc'[p] = "idle"
              /\ result'.value.error_code = -1
              /\ ledger' = ledger]_vars

\* the same seen from the ledger: no record has outputAmount 0, which the
\* quotes of OutAmountChoices never give
C19_NoRecordWithoutQuotedOutput ==
    \A i \in 1..Len(ledger) : ~IsZero(ledger[i].output_amount)

\* x <= y for floats
Leq(x, y) == x[1] * y[2] <= y[1] * x[2]

\* C20: with only Buy (positive amount, positive quoted output) and SellAll
\* requests, total asset sold never exceeds total asset bought for any mint,
\* under every interleaving: two concurrent SellAll requests of a mint do
\* not both append a Sell for the same holdings.
C20_NeverOversold ==
    \A m \in Mints : Leq(TotalAssetSold(ledger, m), TotalAssetBought(ledger, m))

\* the same rows in every order a store could return them
PermutedRows(rows) ==
    {[i \in 1..Len(rows) |-> rows[f[i]]] : f \in Permutations(1..Len(rows))}

\* C21: the aggregates and the position depend only on the multiset of a
\* mint's records: what GetPnL and the position query report is what they
\* compute from the same records in any other order.
C21_OrderIndependent ==
    \A rows \in PermutedRows(ledger) :
        LET m == result.ca_mint
            totals == Totals(QueryByMint(rows, m))
            data == result.value.data
        IN  /\ (result.entry = "calculate_pnl" /\ result.value.error_code = 0)
                 => /\ data.total_sol_spent = totals.total_sol_spent
                    /\ data.total_ca_bought = totals.total_ca_bought
                    /\ data.total_sol_received = totals.total_sol_received
                    /\ data.total_ca_sold = totals.total_ca_sold
                    /\ FSub(data.total_ca_bought, data.total_ca_sold)
                         = RemainingCa(totals)
                    /\ data.realized_pnl = RealizedPnl(totals)
            /\ (result.entry = "get_total_ca_held" /\ result.value.error_code = 0)
                 => data = TotalCaHeld(QueryByMint(rows, m))

\* the part of C21 that holds: the base totals, whose sums are exact for
\* these ledgers, do not depend on the order
C21_ExactSumsOrderIndependent ==
    \A rows \in PermutedRows(ledger) :
        (result.entry = "calculate_pnl" /\ result.value.error_code = 0)
          => LET totals == Totals(QueryByMint(rows, result.ca_mint))
             IN  /\ result.value.data.total_sol_spent = totals.total_sol_spent
                 /\ result.value.data.total_sol_received = totals.total_sol_received
                 /\ result.value.data.total_ca_sold = totals.total_ca_sold

\* the mints of the Buy, Sell and SellAll requests that take the step
ActingMints ==
    {loc[p].ca_mint : p \in {q \in Procs : /\ pc[q] \in TradeStates
                                            /\ pc'[q] # pc[q]}}
        \cup {loc'[p].ca_mint : p \in {q \in Procs : /\ pc[q] = "idle"
                                                     /\ pc'[q] \in TradeStates}}
        \cup (IF pc' = pc /\ result'.entry = "sell_all_ca"
              THEN {result'.ca_mint} ELSE {})

\* C22: a step of a Buy, Sell or SellAll request for one mint, successful or
\* failed, leaves the records, the remainingAsset and every PnL aggregate of
\* every other mint as they were, as does what the position query and GetPnL
\* compute for it.
C22_OtherMintsUntouched ==
    [][\A a \in ActingMints : \A b \in Mints \ {a} :
         /\ RowsOf(ledger', b) = RowsOf(ledger, b)
         /\ QueryByMint(ledger', b) = QueryByMint(ledger, b)
         /\ RemainingAsset(ledger', b) = RemainingAsset(ledger, b)
         /\ TotalBaseSpent(ledger', b) = TotalBaseSpent(ledger, b)
         /\ TotalAssetBought(ledger', b) = TotalAssetBought(ledger, b)
         /\ TotalBaseReceived(ledger', b) = TotalBaseReceived(ledger, b)
         /\ TotalAssetSold(ledger', b) = TotalAssetSold(ledger, b)
         /\ ClaimedRealizedPnl(ledger', b) = ClaimedRealizedPnl(ledger, b)
         /\ TotalCaHeld(QueryByMint(ledger', b)) = TotalCaHeld(QueryByMint(ledger, b))
         /\ Totals(QueryByMint(ledger', b)) = Totals(QueryByMint(ledger, b))]_vars

\* a SellAll of one mint has appended its Sell while the other mint has a
\* record
C22_Witness ==
    /\ result.entry = "sell_all_ca"
    /\ result.value.error_code = 0
    /\ ledger[Len(ledger)].ca_mint = result.ca_mint
    /\ \E b \in Mints \ {result.ca_mint} : RowsOf(ledger, b) # {}

====
